---- MODULE Spec2Model ----
(***************************************************************************)
(* Model of jenkins_jobs/modules/project_pipeline_multibranch.py:           *)
(* PipelineMultiBranch.root_xml and the three generators it calls.  A      *)
(* configuration record is a Python dict (a function from keys to values), *)
(* the output document an ElementTree element: a tag, an attribute dict,   *)
(* a text value and an ordered list of children.                           *)
(***************************************************************************)
EXTENDS Integers, Sequences, FiniteSets, TLC

VARIABLES
    config,  \* the argument of the call: the record handed to the handler
    gitOut,  \* what the scm.git collaborator appends under the element it is given
    out,     \* per build: state (idle, returned, raised), doc, err, log, ids
    issued   \* the identifiers uuid.uuid4() has returned so far

vars == <<config, gitOut, out, issued>>

(***************************************************************************)
(* Bounds of the model.                                                    *)
(***************************************************************************)
MaxScm == 2         \* longest scm sequence
MaxExceptions == 3  \* longest exceptions sequence of a direct strategy call
NumUuids == 3       \* identifiers uuid4 can draw from

(***************************************************************************)
(* Python values.  A str is its sequence of characters, so that lower()    *)
(* is computed character by character.                                     *)
(***************************************************************************)
PyNone == [t |-> "NoneType"]
PyStr(s) == [t |-> "str", s |-> s]
PyBool(b) == [t |-> "bool", b |-> b]
PyDict(m) == [t |-> "dict", m |-> m]

EmptyDict == [k \in {} |-> PyNone]
Has(d, k) == k \in DOMAIN d
Get(d, k, default) == IF k \in DOMAIN d THEN d[k] ELSE default

UpperToLower ==
    [c \in {"A", "B", "C", "D", "E", "F", "G", "H", "I", "J", "K", "L", "M",
            "N", "O", "P", "Q", "R", "S", "T", "U", "V", "W", "X", "Y", "Z"} |->
        CASE c = "A" -> "a" [] c = "B" -> "b" [] c = "C" -> "c" [] c = "D" -> "d"
          [] c = "E" -> "e" [] c = "F" -> "f" [] c = "G" -> "g" [] c = "H" -> "h"
          [] c = "I" -> "i" [] c = "J" -> "j" [] c = "K" -> "k" [] c = "L" -> "l"
          [] c = "M" -> "m" [] c = "N" -> "n" [] c = "O" -> "o" [] c = "P" -> "p"
          [] c = "Q" -> "q" [] c = "R" -> "r" [] c = "S" -> "s" [] c = "T" -> "t"
          [] c = "U" -> "u" [] c = "V" -> "v" [] c = "W" -> "w" [] c = "X" -> "x"
          [] c = "Y" -> "y" [] c = "Z" -> "z"]

\* str(v)
Str(v) ==
    CASE v.t = "str" -> v
      [] v.t = "bool" -> IF v.b THEN PyStr(<<"T", "r", "u", "e">>)
                                ELSE PyStr(<<"F", "a", "l", "s", "e">>)
      [] v.t = "NoneType" -> PyStr(<<"N", "o", "n", "e">>)

\* v.lower() of a str
Lower(v) ==
    PyStr([i \in DOMAIN v.s |->
              IF v.s[i] \in DOMAIN UpperToLower THEN UpperToLower[v.s[i]] ELSE v.s[i]])

\* The string literals of the source that become element text.
TxtAll == PyStr(<<"A", "l", "l">>)
TxtFalse == PyStr(<<"f", "a", "l", "s", "e">>)
TxtTrue == PyStr(<<"t", "r", "u", "e">>)
TxtMinusOne == PyStr(<<"-", "1">>)
TxtStar == PyStr(<<"*">>)

(***************************************************************************)
(* xml.etree.ElementTree.                                                  *)
(***************************************************************************)
Element(tag) == [tag |-> tag, attrib |-> {}, text |-> PyNone, children |-> <<>>]

\* elem.attrib[k] = v
SetAttr(elem, k, v) ==
    [elem EXCEPT !.attrib = {p \in @ : p[1] # k} \cup {<<k, v>>}]

\* elem.text = v
SetText(elem, v) == [elem EXCEPT !.text = v]

\* parent.append(child); XML.SubElement(parent, tag) is this on Element(tag)
AppendChild(parent, child) == [parent EXCEPT !.children = Append(@, child)]

\* parent.remove(parent[i])
RemoveChild(parent, i) ==
    [parent EXCEPT !.children =
        [j \in 1..(Len(@) - 1) |-> IF j < i THEN @[j] ELSE @[j + 1]]]

\* elem.find(tag): the index of the first child with that tag, 0 for None
Find(elem, tag) ==
    LET hits == {i \in DOMAIN elem.children : elem.children[i].tag = tag}
    IN IF hits = {} THEN 0 ELSE CHOOSE i \in hits : \A j \in hits : i <= j

\* bool(elem) of an Element: it has children (len(elem) != 0)
Truthy(elem) == Len(elem.children) # 0

(***************************************************************************)
(* uuid.uuid4() and the scm.git collaborator.                              *)
(***************************************************************************)
Uuids == 1..NumUuids

Digit == <<"1", "2", "3", "4", "5", "6", "7", "8", "9">>

\* str(uuid.uuid4()) for the identifier u: distinct identifiers, distinct strings
UuidStr(u) == PyStr(<<"u", "-", Digit[u]>>)

\* git(self, temp_xml, data): the collaborator appends its result under temp_xml
Git(temp_xml, result) == [temp_xml EXCEPT !.children = @ \o result]

(***************************************************************************)
(* generate_git_scm_xml(xml_parent, data).  id is what uuid4 returns, git  *)
(* what the collaborator produces.  The result is the parent as the call   *)
(* leaves it, or the key of the KeyError it raises.                        *)
(***************************************************************************)

\* mutant: one fixed identifier instead of a fresh uuid4 per source
GitElementListFixedId(data, id) ==
    LET ignore_on_push == Get(data, "ignore-on-push-notifications", PyBool(TRUE))
        fixed == << <<"id", PyStr(<<"i", "d">>)>>,
                    <<"remote", data["url"]>>,
                    <<"credentialsId", data["credentials-id"]>>,
                    <<"ignoreOnPushNotifications", Lower(Str(ignore_on_push))>>,
                    <<"includes", Get(data, "includes", TxtStar)>> >>
    IN IF Has(data, "excludes")
       THEN Append(fixed, <<"excludes", data["excludes"]>>)
       ELSE fixed

GitElementList(data, id) ==
    LET ignore_on_push == Get(data, "ignore-on-push-notifications", PyBool(TRUE))
        fixed == << <<"id", UuidStr(id)>>,
                    <<"remote", data["url"]>>,
                    <<"credentialsId", data["credentials-id"]>>,
                    <<"ignoreOnPushNotifications", Lower(Str(ignore_on_push))>>,
                    <<"includes", Get(data, "includes", TxtStar)>> >>
    IN IF Has(data, "excludes")
       THEN Append(fixed, <<"excludes", data["excludes"]>>)
       ELSE fixed

RECURSIVE AddItems(_, _)
\* for item in git_element_list: XML.SubElement(git_source, item[0]).text = item[1]
AddItems(elem, items) ==
    IF items = <<>> THEN elem
    ELSE AddItems(AppendChild(elem, SetText(Element(items[1][1]), items[1][2])),
                  Tail(items))

\* lines 280-286: the collaborator's output under a temporary child, its
\* scm/extensions child appended to git_source, the temporary child removed
SpliceExtensions(git_source, git) ==
    LET temp_xml == Git(Element("temp-git"), git)
        temp_at == Len(git_source.children) + 1
        with_temp == AppendChild(git_source, temp_xml)
        scm_at == Find(temp_xml, "scm")
        temp_xml_scm == temp_xml.children[scm_at]
        ext_at == Find(temp_xml_scm, "extensions")
        spliced ==
            IF /\ scm_at # 0
               /\ Truthy(temp_xml_scm)
               /\ ext_at # 0
               /\ Truthy(temp_xml_scm.children[ext_at])
            THEN AppendChild(with_temp, temp_xml_scm.children[ext_at])
            ELSE with_temp
    IN RemoveChild(spliced, temp_at)

GitSource(data, id, git) ==
    LET git_source == SetAttr(SetAttr(Element("source"),
                                      "class", "jenkins.plugins.git.GitSCMSource"),
                              "plugin", "git")
        with_excludes == IF Has(data, "excludes") THEN git_source
                         ELSE AppendChild(git_source, Element("excludes"))
    IN SpliceExtensions(AddItems(with_excludes, GitElementList(data, id)), git)


\* mutant: credentials-id read with data.get, so its absence raises nothing
generate_git_scm_xml_optional_credentials(xml_parent, data, id, git) ==
    IF ~Has(data, "url") THEN [elem |-> xml_parent, err |-> "url"]
    ELSE [elem |-> AppendChild(xml_parent,
                       GitSource(data @@ ("credentials-id" :> PyNone), id, git)),
          err |-> ""]

generate_git_scm_xml(xml_parent, data, id, git) ==
    IF ~Has(data, "url") THEN [elem |-> xml_parent, err |-> "url"]
    ELSE IF ~Has(data, "credentials-id")
         THEN [elem |-> xml_parent, err |-> "credentials-id"]
         ELSE [elem |-> AppendChild(xml_parent, GitSource(data, id, git)),
               err |-> ""]

(***************************************************************************)
(* generate_default_source_strategy and generate_source_strategy.          *)
(***************************************************************************)
\* <a class="jenkins.branch.BranchProperty-array"> holding one NoTriggerBranchProperty
NoTriggerArray ==
    AppendChild(SetAttr(Element("a"), "class", "jenkins.branch.BranchProperty-array"),
                Element("jenkins.branch.NoTriggerBranchProperty"))

ArrayList(tag) == SetAttr(Element(tag), "class", "java.util.Arrays$ArrayList")


\* mutant: the default strategy with the list class of the other strategies
generate_default_source_strategy_arraylist(xml_parent) ==
    LET strategy == SetAttr(Element("strategy"),
                            "class", "jenkins.branch.DefaultBranchPropertyStrategy")
    IN AppendChild(xml_parent, AppendChild(strategy, ArrayList("properties")))

generate_default_source_strategy(xml_parent) ==
    LET strategy == SetAttr(Element("strategy"),
                            "class", "jenkins.branch.DefaultBranchPropertyStrategy")
        strategy_properties == SetAttr(Element("properties"), "class", "empty-list")
    IN AppendChild(xml_parent, AppendChild(strategy, strategy_properties))


\* mutant: the branch name normalised to lower case
NamedExceptionLower(exception) ==
    LET named_exception ==
            Element("jenkins.branch.NamedExceptionsBranchPropertyStrategy_-Named")
        named_exception_props == AppendChild(ArrayList("props"), NoTriggerArray)
        exception_branch_name == SetText(Element("name"), Lower(exception))
    IN AppendChild(AppendChild(named_exception, named_exception_props),
                   exception_branch_name)

\* one jenkins.branch.NamedExceptionsBranchPropertyStrategy_-Named entry
NamedException(exception) ==
    LET named_exception ==
            Element("jenkins.branch.NamedExceptionsBranchPropertyStrategy_-Named")
        named_exception_props == AppendChild(ArrayList("props"), NoTriggerArray)
        exception_branch_name == SetText(Element("name"), exception)
    IN AppendChild(AppendChild(named_exception, named_exception_props),
                   exception_branch_name)

RECURSIVE NamedExceptions(_, _)
\* for exception in data['exceptions']: one Named entry under named_exceptions_a
NamedExceptions(named_exceptions_a, exceptions) ==
    IF exceptions = <<>> THEN named_exceptions_a
    ELSE NamedExceptions(AppendChild(named_exceptions_a, NamedException(exceptions[1])),
                         Tail(exceptions))

ExceptionsStrategy(exceptions) ==
    LET strategy ==
            SetAttr(Element("strategy"),
                    "class", "jenkins.branch.NamedExceptionsBranchPropertyStrategy")
        strategy_properties == AppendChild(ArrayList("defaultProperties"), NoTriggerArray)
        named_exceptions_a ==
            SetAttr(Element("a"), "class",
                    "jenkins.branch.NamedExceptionsBranchPropertyStrategy$Named-array")
        named_exceptions ==
            AppendChild(ArrayList("namedExceptions"),
                        NamedExceptions(named_exceptions_a, exceptions))
    IN AppendChild(AppendChild(strategy, strategy_properties), named_exceptions)

SimpleStrategy ==
    LET strategy == SetAttr(Element("strategy"),
                            "class", "jenkins.branch.DefaultBranchPropertyStrategy")
        strategy_properties == AppendChild(ArrayList("properties"), NoTriggerArray)
    IN AppendChild(strategy, strategy_properties)

generate_source_strategy(xml_parent, data) ==
    IF Has(data, "exceptions")
    THEN AppendChild(xml_parent, ExceptionsStrategy(data["exceptions"]))
    ELSE AppendChild(xml_parent, SimpleStrategy)

\* the logger.warn calls of generate_source_strategy
StrategyLog(data) ==
    IF Has(data, "exceptions")
    THEN <<"contains git strategy exceptions">>
         \o [i \in DOMAIN data["exceptions"] |-> "Exception found for branch %s"]
    ELSE <<"contains simple git strategy">>

(***************************************************************************)
(* root_xml(data).  ids are the identifiers the uuid4 calls of this build  *)
(* return, in call order, git the collaborator's result.                   *)
(***************************************************************************)
WorkflowMultiBranchProject ==
    "org.jenkinsci.plugins.workflow.multibranch.WorkflowMultiBranchProject"

NoDoc == Element("")


\* mutant: the root element without its plugin attribute
RootNoPlugin == Element(WorkflowMultiBranchProject)

\* lines 148-149
Root == SetAttr(Element(WorkflowMultiBranchProject), "plugin", "workflow-multibranch")

\* <owner class=... reference=...>
OwnerRef(reference) ==
    SetAttr(SetAttr(Element("owner"), "class", WorkflowMultiBranchProject),
            "reference", reference)

\* lines 156-174
PropertiesBlock(project_def) ==
    LET domain == AppendChild(
            SetAttr(Element("com.cloudbees.plugins.credentials.domains.Domain"),
                    "plugin", "credentials"),
            Element("specifications"))
        entry == AppendChild(AppendChild(Element("entry"), domain),
                             Element("java.util.concurrent.CopyOnWriteArrayList"))
        domain_credentials_map ==
            AppendChild(SetAttr(Element("domainCredentialsMap"),
                                "class", "hudson.util.CopyOnWriteMap$Hash"),
                        entry)
        folder_credentials_provider ==
            AppendChild(
                SetAttr(Element("com.cloudbees.hudson.plugins.folder.properties.FolderCredentialsProvider_-FolderCredentialsProperty"),
                        "plugin", "cloudbees-folder"),
                domain_credentials_map)
        properties == AppendChild(Element("properties"), folder_credentials_provider)
        env_properties_parent ==
            AppendChild(
                SetAttr(Element("com.cloudbees.hudson.plugins.folder.properties.EnvVarsFolderProperty"),
                        "plugin", "cloudbees-folders-plus"),
                SetText(Element("properties"), project_def["env-properties"]))
    IN IF Has(project_def, "env-properties")
       THEN AppendChild(properties, env_properties_parent)
       ELSE properties

\* lines 176-188
ViewsBlock ==
    LET allView ==
            << OwnerRef("../../.."),
               SetText(Element("name"), TxtAll),
               SetText(Element("filterExecutors"), TxtFalse),
               SetText(Element("filterQueue"), TxtFalse),
               SetAttr(Element("properties"), "class", "hudson.model.View$PropertyList") >>
    IN AppendChild(Element("views"),
                   [Element("hudson.model.AllView") EXCEPT !.children = allView])

\* lines 190-200
ViewsTabBar == SetAttr(Element("viewsTabBar"), "class", "hudson.views.DefaultViewsTabBar")

HealthMetrics ==
    AppendChild(Element("healthMetrics"),
                SetAttr(Element("com.cloudbees.hudson.plugins.folder.health.WorstChildHealthMetric"),
                        "plugin", "cloudbees-folder"))

Icon ==
    SetAttr(SetAttr(Element("icon"),
                    "class", "com.cloudbees.hudson.plugins.folder.icons.StockFolderIcon"),
            "plugin", "cloudbees-folder")


\* mutant: a falsy value replaced by the default, str(value or False).lower()
PruneTextFalsy(project_def) ==
    LET value == Get(project_def, "prune-dead-branches", PyBool(FALSE))
    IN IF value \in {PyNone, PyStr(<<>>), PyBool(FALSE)} THEN TxtFalse
       ELSE Lower(Str(value))

\* lines 206-209: the text of pruneDeadBranches
PruneText(project_def) == Lower(Str(Get(project_def, "prune-dead-branches", PyBool(FALSE))))


\* mutant: pruneDeadBranches emitted whether or not the key is present
OrphanedItemStrategyAlwaysPrune(project_def) ==
    LET orphaned_item_strategy ==
            SetAttr(SetAttr(Element("orphanedItemStrategy"), "class",
                            "com.cloudbees.hudson.plugins.folder.computed.DefaultOrphanedItemStrategy"),
                    "plugin", "cloudbees-folder")
        with_prune ==
            AppendChild(orphaned_item_strategy,
                        SetText(Element("pruneDeadBranches"), PruneText(project_def)))
        with_days ==
            AppendChild(with_prune,
                        SetText(Element("daysToKeep"),
                                Get(project_def, "days-to-keep", TxtMinusOne)))
    IN AppendChild(with_days,
                   SetText(Element("numToKeep"),
                           Get(project_def, "number-to-keep", TxtMinusOne)))

\* lines 202-212
OrphanedItemStrategy(project_def) ==
    LET orphaned_item_strategy ==
            SetAttr(SetAttr(Element("orphanedItemStrategy"), "class",
                            "com.cloudbees.hudson.plugins.folder.computed.DefaultOrphanedItemStrategy"),
                    "plugin", "cloudbees-folder")
        with_prune ==
            IF Has(project_def, "prune-dead-branches")
            THEN AppendChild(orphaned_item_strategy,
                             SetText(Element("pruneDeadBranches"), PruneText(project_def)))
            ELSE orphaned_item_strategy
        with_days ==
            AppendChild(with_prune,
                        SetText(Element("daysToKeep"),
                                Get(project_def, "days-to-keep", TxtMinusOne)))
    IN AppendChild(with_days,
                   SetText(Element("numToKeep"),
                           Get(project_def, "number-to-keep", TxtMinusOne)))

\* lines 214-222, once both required keys are known to be there
Triggers(project_def) ==
    LET timer_trigger ==
            AppendChild(Element("hudson.triggers.TimerTrigger"),
                        SetText(Element("spec"), project_def["timer-trigger"]))
        triggers == IF Has(project_def, "timer-trigger")
                    THEN AppendChild(Element("triggers"), timer_trigger)
                    ELSE Element("triggers")
        periodic_folder_trigger ==
            SetAttr(Element("com.cloudbees.hudson.plugins.folder.computed.PeriodicFolderTrigger"),
                    "plugin", "cloudbees-folder")
    IN AppendChild(triggers,
           AppendChild(AppendChild(periodic_folder_trigger,
                                   SetText(Element("spec"),
                                           project_def["periodic-folder-spec"])),
                       SetText(Element("interval"),
                               project_def["periodic-folder-interval"])))

\* line 232: isinstance(git_data, dict) and 'git' in git_data
IsGitEntry(git_data) == git_data.t = "dict" /\ Has(git_data.m, "git")

\* lines 233-240: one BranchSource, or the key of the KeyError
BranchSource(git_spec, id, git) ==
    LET made == generate_git_scm_xml(Element("jenkins.branch.BranchSource"),
                                     git_spec, id, git)
    IN IF made.err # "" THEN made
       ELSE [elem |-> IF Has(git_spec, "strategy")
                      THEN generate_source_strategy(made.elem, git_spec["strategy"])
                      ELSE generate_default_source_strategy(made.elem),
             err |-> ""]

RECURSIVE ScmLoop(_, _, _, _, _)
\* lines 230-242: for git_data in project_def['scm']
ScmLoop(sources_data, scm, ids, git, log) ==
    IF scm = <<>> THEN [elem |-> sources_data, err |-> "", log |-> log]
    ELSE LET git_data == Head(scm)
             seen == Append(log, "git_data = %s")
         IN IF IsGitEntry(git_data)
            THEN LET made == BranchSource(git_data.m["git"], Head(ids), git)
                 IN IF made.err # ""
                    THEN [elem |-> sources_data, err |-> made.err, log |-> seen]
                    ELSE ScmLoop(AppendChild(sources_data, made.elem), Tail(scm),
                                 Tail(ids), git,
                                 IF Has(git_data.m["git"], "strategy")
                                 THEN seen \o StrategyLog(git_data.m["git"]["strategy"])
                                 ELSE seen)
            ELSE ScmLoop(sources_data, Tail(scm), ids, git,
                         Append(seen, "We cannot process scm"))


\* mutant: the owner reference appended before the data node
SourcesOwnerFirst(sources_data) ==
    LET sources == SetAttr(SetAttr(Element("sources"), "class",
                                   "jenkins.branch.MultiBranchProject$BranchSourceList"),
                           "plugin", "branch-api")
    IN AppendChild(AppendChild(sources, OwnerRef("../..")), sources_data)

\* lines 224-246
Sources(sources_data) ==
    LET sources == SetAttr(SetAttr(Element("sources"), "class",
                                   "jenkins.branch.MultiBranchProject$BranchSourceList"),
                           "plugin", "branch-api")
    IN AppendChild(AppendChild(sources, sources_data), OwnerRef("../.."))

\* lines 248-252
Factory ==
    AppendChild(SetAttr(Element("factory"), "class",
                        "org.jenkinsci.plugins.workflow.multibranch.WorkflowBranchProjectFactory"),
                OwnerRef("../.."))

Raised(key, log) == [state |-> "raised", doc |-> NoDoc, err |-> key, log |-> log]
Returned(doc, log) == [state |-> "returned", doc |-> doc, err |-> "", log |-> log]

root_xml(data, ids, git) ==
    IF ~Has(data, "multibranch") THEN Returned(Root, <<>>)
    ELSE LET project_def == data["multibranch"]
             loop == ScmLoop(Element("data"), Get(project_def, "scm", <<>>),
                             ids, git, <<>>)
         IN IF ~Has(project_def, "periodic-folder-spec")
            THEN Raised("periodic-folder-spec", <<>>)
            ELSE IF ~Has(project_def, "periodic-folder-interval")
            THEN Raised("periodic-folder-interval", <<>>)
            ELSE IF loop.err # "" THEN Raised(loop.err, loop.log)
            ELSE Returned(
                     [Root EXCEPT !.children =
                         << PropertiesBlock(project_def),
                            ViewsBlock,
                            ViewsTabBar,
                            HealthMetrics,
                            Icon,
                            OrphanedItemStrategy(project_def),
                            Triggers(project_def),
                            Sources(loop.elem),
                            Factory >>],
                     loop.log)

RECURSIVE ScmUuidCalls(_)
\* how many times the loop over scm reaches line 266
ScmUuidCalls(scm) ==
    IF scm = <<>> THEN 0
    ELSE IF ~IsGitEntry(Head(scm)) THEN ScmUuidCalls(Tail(scm))
    ELSE IF Has(Head(scm).m["git"], "url") /\ Has(Head(scm).m["git"], "credentials-id")
         THEN 1 + ScmUuidCalls(Tail(scm))
         ELSE 1

\* how many identifiers root_xml(data) draws
UuidCalls(data) ==
    IF /\ Has(data, "multibranch")
       /\ Has(data["multibranch"], "periodic-folder-spec")
       /\ Has(data["multibranch"], "periodic-folder-interval")
    THEN ScmUuidCalls(Get(data["multibranch"], "scm", <<>>))
    ELSE 0

(***************************************************************************)
(* Inputs: configuration values, scm entries, collaborator results.        *)
(***************************************************************************)
StrUrl == PyStr(<<"g", "i", "t", "@", "x">>)
StrCred == PyStr(<<"c", "1">>)
StrSpec == PyStr(<<"H", "/", "5">>)
StrInterval == PyStr(<<"3", "0", "0">>)
StrEnv == PyStr(<<"K", "=", "V">>)
StrTimer == PyStr(<<"@", "d", "a", "i", "l", "y">>)
StrSeven == PyStr(<<"7">>)
StrFive == PyStr(<<"5">>)
StrEmpty == PyStr(<<>>)
StrUpperTrue == PyStr(<<"T", "R", "U", "E">>)
StrYes == PyStr(<<"Y", "e", "s">>)
StrDev == PyStr(<<"d", "e", "v", "*">>)
StrName == PyStr(<<"j", "o", "b">>)
BranchNames == {PyStr(<<"r", "e", "l", "/", "1", ".", "0">>),
                PyStr(<<"h", "o", "t", "f", "i", "x">>),
                PyStr(<<"H", "E", "A", "D">>)}

\* a dict with the key k bound to one of vals, or without it
Opt(k, vals) == {EmptyDict} \cup {k :> v : v \in vals}

\* sequences over S of length at most n
SeqsUpTo(S, n) == UNION {[1..k -> S] : k \in 0..n}

\* sequences of n different elements of S
InjSeqs(S, n) == {s \in [1..n -> S] : \A i, j \in 1..n : i # j => s[i] # s[j]}

Range(s) == {s[i] : i \in DOMAIN s}

\* results of the collaborator: the children it leaves under temp_xml
ScmNode(children) ==
    [SetAttr(Element("scm"), "class", "hudson.plugins.git.GitSCM")
        EXCEPT !.children = children]

ExtensionsEmpty == Element("extensions")
ExtensionsFull ==
    AppendChild(Element("extensions"),
                Element("hudson.plugins.git.extensions.impl.WipeWorkspace"))
ConfigVersion == SetText(Element("configVersion"), PyStr(<<"2">>))

GitNothing == <<>>
GitScmEmpty == <<ScmNode(<<>>)>>
GitScmNoExtensions == <<ScmNode(<<ConfigVersion>>)>>
GitScmExtensionsEmpty == <<ScmNode(<<ConfigVersion, ExtensionsEmpty>>)>>
GitScmExtensionsFull == <<ScmNode(<<ConfigVersion, ExtensionsFull>>)>>
GitScmSecond == <<Element("remote"), ScmNode(<<ExtensionsFull, ConfigVersion>>)>>

GitResults == {GitNothing, GitScmEmpty, GitScmNoExtensions, GitScmExtensionsEmpty,
               GitScmExtensionsFull, GitScmSecond}

\* git source specs
GitMin == ("url" :> StrUrl) @@ ("credentials-id" :> StrCred)

StrategySpecs ==
    {EmptyDict} \cup {"exceptions" :> e : e \in SeqsUpTo(BranchNames, MaxExceptions)}

GitSpecs ==
    {a @@ b @@ c @@ d @@ e :
        a \in Opt("url", {StrUrl}),
        b \in Opt("credentials-id", {StrCred}),
        c \in Opt("ignore-on-push-notifications", {PyBool(TRUE), PyBool(FALSE)}),
        d \in Opt("includes", {StrDev}),
        e \in Opt("excludes", {StrDev, StrEmpty})}

\* scm entries of a whole build
ScmEntries ==
    {PyStr(<<"g", "i", "t">>),
     PyDict("svn" :> GitMin),
     PyDict("git" :> GitMin),
     PyDict("git" :> ("credentials-id" :> StrCred)),
     PyDict("git" :> ("url" :> StrUrl)),
     PyDict("git" :> (GitMin @@ ("strategy" :> EmptyDict))),
     PyDict("git" :> (GitMin @@ ("strategy" :> ("exceptions" :> <<>>)))),
     PyDict("git" :> (GitMin @@ ("strategy" :>
         ("exceptions" :> <<PyStr(<<"r", "e", "l", "/", "1", ".", "0">>),
                            PyStr(<<"h", "o", "t", "f", "i", "x">>)>>))))}

\* records of a whole build: without multibranch, or with the required
\* fields and the scm sequence varying
Configs ==
    {a @@ b : a \in Opt("name", {StrName}), b \in Opt("scm", {<<PyDict("git" :> GitMin)>>})}
    \cup
    {"multibranch" :> (a @@ b @@ c) :
        a \in Opt("periodic-folder-spec", {StrSpec}),
        b \in Opt("periodic-folder-interval", {StrInterval}),
        c \in Opt("scm", SeqsUpTo(ScmEntries, MaxScm))}

\* records that vary the optional scalar fields
OrphanConfigs ==
    {"multibranch" :> (("periodic-folder-spec" :> StrSpec)
                       @@ ("periodic-folder-interval" :> StrInterval)
                       @@ a @@ b @@ c @@ d @@ e) :
        a \in Opt("prune-dead-branches",
                  {PyBool(TRUE), PyBool(FALSE), PyNone, StrEmpty, StrUpperTrue, StrYes}),
        b \in Opt("days-to-keep", {StrSeven}),
        c \in Opt("number-to-keep", {StrFive}),
        d \in Opt("env-properties", {StrEnv}),
        e \in Opt("timer-trigger", {StrTimer})}

\* records built twice
TwoConfigs ==
    {EmptyDict}
    \cup
    {"multibranch" :> (("periodic-folder-spec" :> StrSpec) @@ b @@ c) :
        b \in Opt("periodic-folder-interval", {StrInterval}),
        c \in Opt("scm", SeqsUpTo({PyStr(<<"g", "i", "t">>),
                                   PyDict("git" :> GitMin),
                                   PyDict("git" :> ("url" :> StrUrl)),
                                   PyDict("git" :> (GitMin @@ ("strategy" :> EmptyDict)))},
                                  MaxScm))}

(***************************************************************************)
(* State machine.                                                          *)
(***************************************************************************)
Builds == {1, 2}

Idle == [state |-> "idle", doc |-> NoDoc, err |-> "", log |-> <<>>, ids |-> <<>>]

WithIds(r, ids) ==
    [state |-> r.state, doc |-> r.doc, err |-> r.err, log |-> r.log, ids |-> ids]

InitWith(configs, gits) ==
    /\ config \in configs
    /\ gitOut \in gits
    /\ out = [b \in Builds |-> Idle]
    /\ issued = {}

\* build b calls root_xml(config)
RootXml(b, pool) ==
    /\ out[b].state = "idle"
    /\ \E ids \in InjSeqs(pool \ issued, UuidCalls(config)) :
         /\ out' = [out EXCEPT ![b] = WithIds(root_xml(config, ids, gitOut), ids)]
         /\ issued' = issued \cup Range(ids)
    /\ UNCHANGED <<config, gitOut>>

\* generate_git_scm_xml(branch_source, config) called on an empty BranchSource
GenerateGitScmXml ==
    /\ out[1].state = "idle"
    /\ \E id \in Uuids \ issued :
         LET made == generate_git_scm_xml(Element("jenkins.branch.BranchSource"),
                                          config, id, gitOut)
         IN /\ out' = [out EXCEPT ![1] =
                          WithIds(IF made.err = "" THEN Returned(made.elem, <<>>)
                                  ELSE Raised(made.err, <<>>), <<id>>)]
            /\ issued' = issued \cup {id}
    /\ UNCHANGED <<config, gitOut>>

\* generate_source_strategy(branch_source, config) on an empty BranchSource
GenerateSourceStrategy ==
    /\ out[1].state = "idle"
    /\ out' = [out EXCEPT ![1] =
                  WithIds(Returned(generate_source_strategy(
                                       Element("jenkins.branch.BranchSource"), config),
                                   StrategyLog(config)), <<>>)]
    /\ UNCHANGED <<config, gitOut, issued>>

\* generate_default_source_strategy(branch_source) on an empty BranchSource
GenerateDefaultSourceStrategy ==
    /\ out[2].state = "idle"
    /\ out' = [out EXCEPT ![2] =
                  WithIds(Returned(generate_default_source_strategy(
                                       Element("jenkins.branch.BranchSource")),
                                   <<>>), <<>>)]
    /\ UNCHANGED <<config, gitOut, issued>>

\* one build of a whole record
Init == InitWith(Configs, {GitNothing, GitScmExtensionsFull})
Next == RootXml(1, Uuids)
Spec == Init /\ [][Next]_vars

\* one build of a record that varies the optional scalar fields
InitOrphan == InitWith(OrphanConfigs, {GitNothing})
SpecOrphan == InitOrphan /\ [][Next]_vars

\* two builds of the same record
InitTwo == InitWith(TwoConfigs, {GitNothing, GitScmExtensionsFull})
NextTwo == \E b \in Builds : RootXml(b, 1..(2 * MaxScm))
SpecTwo == InitTwo /\ [][NextTwo]_vars

\* direct calls of generate_git_scm_xml
InitGit == InitWith(GitSpecs, GitResults)
NextGit == GenerateGitScmXml
SpecGit == InitGit /\ [][NextGit]_vars

\* direct calls of the strategy generators
InitStrategy == InitWith(StrategySpecs, {GitNothing})
NextStrategy == GenerateSourceStrategy \/ GenerateDefaultSourceStrategy
SpecStrategy == InitStrategy /\ [][NextStrategy]_vars

(***************************************************************************)
(* Reading a document.                                                     *)
(***************************************************************************)
TagsOf(elem) == [i \in DOMAIN elem.children |-> elem.children[i].tag]
TheChild(elem, tag) == elem.children[Find(elem, tag)]
HasChild(elem, tag) == Find(elem, tag) # 0

\* an element with this tag, this class attribute only, no text
IsClassed(elem, tag, class) ==
    /\ elem.tag = tag
    /\ elem.attrib = {<<"class", class>>}
    /\ elem.text = PyNone

\* a java.util.Arrays$ArrayList holding exactly one NoTriggerBranchProperty
IsNoTriggerList(elem, tag) ==
    /\ IsClassed(elem, tag, "java.util.Arrays$ArrayList")
    /\ Len(elem.children) = 1
    /\ IsClassed(elem.children[1], "a", "jenkins.branch.BranchProperty-array")
    /\ elem.children[1].children = <<Element("jenkins.branch.NoTriggerBranchProperty")>>

\* the scm sequence of the record, an absent key counting as empty
ScmOf(data) == Get(data["multibranch"], "scm", <<>>)
EntryHasGit(entry) == entry.t = "dict" /\ "git" \in DOMAIN entry.m
\* the git specs of the entries the loop processes, in input order
GitSpecsOf(data) ==
    LET kept == SelectSeq(ScmOf(data), EntryHasGit)
    IN [i \in DOMAIN kept |-> kept[i].m["git"]]

\* the required fields the record lacks
MissingFields(data) ==
    {k \in {"periodic-folder-spec", "periodic-folder-interval"} :
        k \notin DOMAIN data["multibranch"]}
    \cup
    {k \in {"url", "credentials-id"} :
        \E i \in DOMAIN GitSpecsOf(data) : k \notin DOMAIN GitSpecsOf(data)[i]}

\* the required fields a git spec handed to generate_git_scm_xml lacks
MissingGit == {"url", "credentials-id"} \ DOMAIN config

Built == out[1].state = "returned" /\ "multibranch" \in DOMAIN config
SourcesNode == TheChild(out[1].doc, "sources")
BranchSources == TheChild(SourcesNode, "data").children

(***************************************************************************)
(* Claims.                                                                 *)
(***************************************************************************)
\* C1: a record without the multibranch key, whatever else it holds, gives
\* the bare root element: the WorkflowMultiBranchProject tag, the attribute
\* plugin='workflow-multibranch', no children, and no error.
C1_BareRoot ==
    (out[1].state # "idle" /\ "multibranch" \notin DOMAIN config)
    => /\ out[1].state = "returned"
       /\ out[1].err = ""
       /\ out[1].doc =
            [tag |-> "org.jenkinsci.plugins.workflow.multibranch.WorkflowMultiBranchProject",
             attrib |-> {<<"plugin", "workflow-multibranch">>},
             text |-> PyNone,
             children |-> <<>>]

C1_Witness ==
    /\ out[1].state = "returned"
    /\ DOMAIN config = {"name", "scm"}
    /\ out[1].doc.children = <<>>

\* C2: with multibranch present, the build raises, naming a missing field
\* and returning no document, exactly when periodic-folder-spec or
\* periodic-folder-interval is absent from the multibranch mapping or url or
\* credentials-id from the git spec of a processed scm entry; otherwise it
\* returns a document without error.
C2_RequiredFields ==
    (out[1].state # "idle" /\ "multibranch" \in DOMAIN config)
    => LET missing == MissingFields(config)
       IN /\ (out[1].state = "raised") <=> (missing # {})
          /\ out[1].state = "raised"
                => out[1].err \in missing /\ out[1].doc = NoDoc
          /\ out[1].state = "returned"
                => out[1].err = "" /\ out[1].doc.tag = WorkflowMultiBranchProject

C2_Witness ==
    /\ out[1].state = "raised"
    /\ out[1].err = "credentials-id"
    /\ "multibranch" \in DOMAIN config
    /\ Len(ScmOf(config)) = 2
    /\ ~EntryHasGit(ScmOf(config)[1])

\* C3: the children of sources/data are one BranchSource per scm entry that
\* is a mapping with the key git, in the input order of those entries (an
\* absent scm key counting as the empty sequence); the other entries add no
\* child and do not abort the build; owner follows data as the last child of
\* sources.
C3_BranchSources ==
    /\ (out[1].state = "raised" /\ "multibranch" \in DOMAIN config)
          => MissingFields(config) # {}
    /\ Built =>
          LET specs == GitSpecsOf(config)
          IN /\ TagsOf(SourcesNode) = <<"data", "owner">>
             /\ Len(BranchSources) = Len(specs)
             /\ \A i \in DOMAIN specs :
                   /\ BranchSources[i].tag = "jenkins.branch.BranchSource"
                   /\ BranchSources[i] = BranchSource(specs[i], out[1].ids[i], gitOut).elem

C3_Witness ==
    /\ Built
    /\ Len(ScmOf(config)) = 2
    /\ ScmOf(config)[1].t = "str"
    /\ EntryHasGit(ScmOf(config)[2])
    /\ Len(BranchSources) = 1
    /\ out[1].log = <<"git_data = %s", "We cannot process scm", "git_data = %s">>

\* C5: every BranchSource has the children source then strategy, and the
\* strategy is fixed by the git spec: no strategy key gives
\* DefaultBranchPropertyStrategy with an 'empty-list' properties node without
\* children; a strategy mapping without exceptions gives
\* DefaultBranchPropertyStrategy with a java.util.Arrays$ArrayList properties
\* node holding one NoTriggerBranchProperty; a strategy mapping with
\* exceptions (even empty) gives NamedExceptionsBranchPropertyStrategy with
\* defaultProperties followed by namedExceptions.
C5_StrategyShape ==
    Built =>
       \A i \in DOMAIN GitSpecsOf(config) :
          LET spec == GitSpecsOf(config)[i]
              strategy == BranchSources[i].children[2]
          IN /\ TagsOf(BranchSources[i]) = <<"source", "strategy">>
             /\ IF "strategy" \notin DOMAIN spec
                THEN /\ IsClassed(strategy, "strategy",
                                  "jenkins.branch.DefaultBranchPropertyStrategy")
                     /\ Len(strategy.children) = 1
                     /\ IsClassed(strategy.children[1], "properties", "empty-list")
                     /\ strategy.children[1].children = <<>>
                ELSE IF "exceptions" \notin DOMAIN spec["strategy"]
                THEN /\ IsClassed(strategy, "strategy",
                                  "jenkins.branch.DefaultBranchPropertyStrategy")
                     /\ Len(strategy.children) = 1
                     /\ IsNoTriggerList(strategy.children[1], "properties")
                ELSE /\ IsClassed(strategy, "strategy",
                                  "jenkins.branch.NamedExceptionsBranchPropertyStrategy")
                     /\ TagsOf(strategy) = <<"defaultProperties", "namedExceptions">>

C5_Witness ==
    /\ Built
    /\ Len(BranchSources) = 2
    /\ "strategy" \notin DOMAIN GitSpecsOf(config)[1]
    /\ "strategy" \in DOMAIN GitSpecsOf(config)[2]
    /\ GitSpecsOf(config)[2]["strategy"] = ("exceptions" :> <<>>)
    /\ BranchSources[2].children[2].attrib =
          {<<"class", "jenkins.branch.NamedExceptionsBranchPropertyStrategy">>}

\* C4 (as claimed): the children of the source node come in one schema
\* order whether or not excludes is configured: id, remote, credentialsId,
\* ignoreOnPushNotifications, includes, then one excludes child (the raw
\* value as text when the key is present, no text when it is absent), then
\* the spliced extensions child if any.
C4_SchemaOrder ==
    out[1].state = "returned" =>
       LET source == out[1].doc.children[1]
           schema == <<"id", "remote", "credentialsId", "ignoreOnPushNotifications",
                       "includes", "excludes">>
       IN /\ TagsOf(source) \in {schema, Append(schema, "extensions")}
          /\ source.children[6].text =
                IF "excludes" \in DOMAIN config THEN config["excludes"] ELSE PyNone

\* C6: for every exceptions sequence (empty, or with repeated names) the
\* namedExceptions array holds one Named entry per element, in input order,
\* each a one-item no-trigger props list followed by a name child whose text
\* is the input string unchanged.
C6_NamedExceptions ==
    (out[1].state = "returned" /\ "exceptions" \in DOMAIN config) =>
       LET strategy == out[1].doc.children[1]
           named == TheChild(TheChild(strategy, "namedExceptions"), "a").children
       IN /\ Len(named) = Len(config["exceptions"])
          /\ \A i \in DOMAIN named :
                /\ named[i].tag =
                      "jenkins.branch.NamedExceptionsBranchPropertyStrategy_-Named"
                /\ TagsOf(named[i]) = <<"props", "name">>
                /\ IsNoTriggerList(named[i].children[1], "props")
                /\ named[i].children[2].text = config["exceptions"][i]
                /\ named[i].children[2].children = <<>>

C6_Witness ==
    /\ out[1].state = "returned"
    /\ "exceptions" \in DOMAIN config
    /\ Len(config["exceptions"]) = 3
    /\ config["exceptions"][1] = config["exceptions"][3]
    /\ config["exceptions"][1] # config["exceptions"][2]
    /\ config["exceptions"][1] = PyStr(<<"H", "E", "A", "D">>)
    /\ Len(TheChild(TheChild(out[1].doc.children[1], "namedExceptions"), "a").children) = 3

OrphanNode == TheChild(out[1].doc, "orphanedItemStrategy")

\* C7 (as claimed): when prune-dead-branches is present the text of
\* pruneDeadBranches is the lowercase string form of the value, and a key
\* present with an empty value (null or the empty string) gives "false".
C7_EmptyIsFalse ==
    (Built /\ "prune-dead-branches" \in DOMAIN config["multibranch"]) =>
       LET value == config["multibranch"]["prune-dead-branches"]
           text == TheChild(OrphanNode, "pruneDeadBranches").text
       IN /\ text = Lower(Str(value))
          /\ value \in {PyNone, PyStr(<<>>)} => text = PyStr(<<"f", "a", "l", "s", "e">>)

\* C7 (amended): when prune-dead-branches is present the text of
\* pruneDeadBranches is the lowercase string form of the value as it stands:
\* "true" and "false" for the booleans, "none" for null, the empty text for
\* the empty string, a string lowercased.
C7_PruneText ==
    (Built /\ "prune-dead-branches" \in DOMAIN config["multibranch"]) =>
       LET value == config["multibranch"]["prune-dead-branches"]
           text == TheChild(OrphanNode, "pruneDeadBranches").text
       IN text = CASE value = PyBool(TRUE) -> PyStr(<<"t", "r", "u", "e">>)
                   [] value = PyBool(FALSE) -> PyStr(<<"f", "a", "l", "s", "e">>)
                   [] value = PyNone -> PyStr(<<"n", "o", "n", "e">>)
                   [] value = PyStr(<<>>) -> PyStr(<<>>)
                   [] value = PyStr(<<"T", "R", "U", "E">>) -> PyStr(<<"t", "r", "u", "e">>)
                   [] value = PyStr(<<"Y", "e", "s">>) -> PyStr(<<"y", "e", "s">>)

C7_Witness ==
    /\ Built
    /\ "prune-dead-branches" \in DOMAIN config["multibranch"]
    /\ config["multibranch"]["prune-dead-branches"] = PyNone
    /\ TheChild(OrphanNode, "pruneDeadBranches").text = PyStr(<<"n", "o", "n", "e">>)

RECURSIVE MaskIds(_, _)
\* the document with the text of every id child of a source node blanked
MaskIds(elem, parentTag) ==
    [tag |-> elem.tag,
     attrib |-> elem.attrib,
     text |-> IF elem.tag = "id" /\ parentTag = "source" THEN PyNone ELSE elem.text,
     children |-> [i \in DOMAIN elem.children |-> MaskIds(elem.children[i], elem.tag)]]

\* the id texts of the git sources of build b's document, in document order
SourceIds(b) ==
    LET sources == TheChild(TheChild(out[b].doc, "sources"), "data").children
    IN [i \in DOMAIN sources |-> TheChild(TheChild(sources[i], "source"), "id").text]

\* C9: two builds of the same record, with the same collaborator output,
\* succeed or fail together and give documents that are identical except in
\* the text of the id child of each git source node; within one document the
\* identifiers of distinct sources are pairwise different.
C9_TwoBuilds ==
    (out[1].state # "idle" /\ out[2].state # "idle") =>
       /\ out[1].state = out[2].state
       /\ out[1].err = out[2].err
       /\ MaskIds(out[1].doc, "") = MaskIds(out[2].doc, "")
       /\ (out[1].state = "returned" /\ "multibranch" \in DOMAIN config) =>
             \A b \in Builds :
                \A i, j \in DOMAIN SourceIds(b) :
                   i # j => SourceIds(b)[i] # SourceIds(b)[j]

C9_Witness ==
    /\ out[1].state = "returned"
    /\ out[2].state = "returned"
    /\ "multibranch" \in DOMAIN config
    /\ Len(SourceIds(1)) = 2
    /\ out[1].doc # out[2].doc
    /\ gitOut # <<>>

\* C10 (as claimed): when the collaborator's result has an scm node with an
\* extensions child, with or without children of its own, that subtree
\* becomes a child of source; when scm or its extensions child is missing
\* nothing is spliced and nothing is raised; the temporary container is no
\* child of source once generate_git_scm_xml has returned.
C10_Splice ==
    (out[1].state # "idle" /\ MissingGit = {}) =>
       LET source == out[1].doc.children[1]
           scm_at == Find([children |-> gitOut], "scm")
           has_ext == scm_at # 0 /\ HasChild(gitOut[scm_at], "extensions")
           spliced == {i \in DOMAIN source.children :
                          source.children[i].tag = "extensions"}
       IN /\ out[1].state = "returned"
          /\ ~HasChild(source, "temp-git")
          /\ IF has_ext
             THEN /\ Cardinality(spliced) = 1
                  /\ TheChild(source, "extensions") = TheChild(gitOut[scm_at], "extensions")
             ELSE spliced = {}
====
